---- MODULE Spec2Model ----
(***************************************************************************)
(* The tamper-evident chain engine of zcrypt (crypto/chain.go): the entry  *)
(* model, the hash linker, AddLog, VerifyChain, Save/Load and NewLogChain. *)
(*                                                                         *)
(* Strings are sequences of one-character tokens, so that the '|' joined   *)
(* canonical text and the JSON coercion of invalid UTF-8 are computed      *)
(* character by character.  SHA-256 is modelled as an ideal hash: an       *)
(* injective map from the hashed text to a digest whose hex text never     *)
(* contains the separator.                                                 *)
(***************************************************************************)
EXTENDS Integers, Sequences, FiniteSets, TLC

VARIABLES
    Entries,    \* lc.Entries, the in-memory sequence
    file,       \* the backing file at lc.FilePath
    mu,         \* lc.mu: the writer holding it, the number of readers
    pc,         \* where each caller is inside AddLog
    entry,      \* AddLog's local variable entry, per caller
    ret,        \* what AddLog returned to each caller
    lockOrder,  \* the callers in the order they acquired the write lock
    now,        \* the instant time.Now() shows
    unsaved,    \* the sequence was extended since the last successful Save
    saveErrors, \* how many Save calls have failed
    chain2,     \* a second chain opened on the same path by NewLogChain
    tampers,    \* the external mutations made so far, and where the last one was
    verdict,    \* what the last VerifyChain call returned
    out         \* the last call of another exported function: its arguments and results

vars == <<Entries, file, mu, pc, entry, ret, lockOrder, now, unsaved,
          saveErrors, chain2, tampers, verdict, out>>

\* ---------------------------------------------------------------- bounds
NumProcs == 2       \* concurrent callers of one chain instance
MaxClock == 1       \* instants the clock can show: 0..MaxClock
MaxEntries == 2     \* longest chain built by the sequential driver
MaxTamper == 2      \* external mutations of stored entries in one run
MaxSigHexLen == 5   \* longest signature string handed to VerifySignature

Procs == 1..NumProcs
NoProc == 0
Instants == 0..MaxClock

\* ------------------------------------------------------------ entry model
\* Characters: "a", "b" are ordinary text, "|" is the separator byte of
\* calculateHash, BadByte is a byte that is not valid UTF-8 and ReplacementRune
\* is U+FFFD.
BadByte == "xFF"
ReplacementRune == "uFFFD"

\* metadata map[string]interface{}: a nil map, an empty non-nil map, a map
\* with one key.
NilMap == [nil |-> TRUE, kv |-> {}]
EmptyMap == [nil |-> FALSE, kv |-> {}]
TestMap == [nil |-> FALSE, kv |-> {<<"test", "true">>}]

\* Arguments the callers pass to AddLog.
Messages == {<<"a">>, <<BadByte>>}
Signatures == {<<"s">>}
PubKeys == {<<"k">>}
Metadatas == {NilMap, TestMap}

LogEntry(ts, msg, sig, pk, prev, cur, meta) ==
    [Timestamp |-> ts, Message |-> msg, Signature |-> sig, PubKey |-> pk,
     PrevHash |-> prev, CurrentHash |-> cur, Metadata |-> meta]

\* The genesis sentinel "0".
GenesisHash == <<"0">>

\* The zero value of LogEntry.
ZeroEntry == LogEntry(0, <<>>, <<>>, <<>>, <<>>, <<>>, NilMap)

\* ------------------------------------------------------------ hash linker
\* time.Time.Format(time.RFC3339Nano) of a UTC instant: one text per instant.
FormatRFC3339Nano(t) == <<"T" \o ToString(t) \o "Z">>

\* A variant of the format that escapes the separator inside the fields.
Sprintf_Escaped(ts, msg, sig, pk, prev) ==
    LET Escaped(text) ==
            [i \in 1..Len(text) |-> IF text[i] = "|" THEN "\\|" ELSE text[i]]
    IN Escaped(ts) \o <<"|">> \o Escaped(msg) \o <<"|">> \o Escaped(sig)
           \o <<"|">> \o Escaped(pk) \o <<"|">> \o Escaped(prev)

\* fmt.Sprintf("%s|%s|%s|%s|%s", ...): the five texts joined by '|', no escaping.
Sprintf(ts, msg, sig, pk, prev) ==
    ts \o <<"|">> \o msg \o <<"|">> \o sig \o <<"|">> \o pk \o <<"|">> \o prev

\* hex.EncodeToString(sha256.Sum256(data)): injective, hex text without '|'.
Sha256Hex(data) == [i \in 1..Len(data) |-> "x" \o data[i]]

\* Variants of calculateHash that leave one field out of the hashed text.
calculateHash_NoPubKey(e) ==
    Sha256Hex(Sprintf(FormatRFC3339Nano(e.Timestamp), e.Message,
                      e.Signature, <<>>, e.PrevHash))

calculateHash_NoPrevHash(e) ==
    Sha256Hex(Sprintf(FormatRFC3339Nano(e.Timestamp), e.Message,
                      e.Signature, e.PubKey, <<>>))

calculateHash_NoMessage(e) ==
    Sha256Hex(Sprintf(FormatRFC3339Nano(e.Timestamp), <<>>,
                      e.Signature, e.PubKey, e.PrevHash))

\* A variant that hashes the metadata as a sixth text.
calculateHash_WithMetadata(e) ==
    Sha256Hex(Sprintf(FormatRFC3339Nano(e.Timestamp), e.Message,
                      e.Signature, e.PubKey, e.PrevHash)
              \o <<"|", ToString(Cardinality(e.Metadata.kv))>>)

calculateHash(e) ==
    Sha256Hex(Sprintf(FormatRFC3339Nano(e.Timestamp), e.Message,
                      e.Signature, e.PubKey, e.PrevHash))

\* ------------------------------------------------------------ VerifyChain
HashMismatch(i) == [index |-> i, kind |-> "hash mismatch"]
BrokenLink(i) == [index |-> i, kind |-> "broken chain link"]
InvalidGenesis == [index |-> 0, kind |-> "invalid genesis prev_hash"]

\* A variant of the hash check that also reports an entry without signature.
HashCheck_RequiresSignature(entries, k) ==
    IF entries[k].CurrentHash # calculateHash(entries[k])
       \/ Len(entries[k].Signature) = 0
    THEN <<HashMismatch(k - 1)>> ELSE <<>>

\* The checks of one loop iteration; k is the 1-based position, the reported
\* index is k-1 as in the source.
HashCheck(entries, k) ==
    IF entries[k].CurrentHash # calculateHash(entries[k])
    THEN <<HashMismatch(k - 1)>> ELSE <<>>

\* A variant of the link check that is off by one: it reads the entry's own
\* current hash.
LinkCheck_OffByOne(entries, k) ==
    IF k > 1
    THEN IF entries[k].PrevHash # entries[k].CurrentHash
         THEN <<BrokenLink(k - 1)>> ELSE <<>>
    ELSE IF entries[k].PrevHash # GenesisHash
         THEN <<InvalidGenesis>> ELSE <<>>

LinkCheck(entries, k) ==
    IF k > 1
    THEN IF entries[k].PrevHash # entries[k - 1].CurrentHash
         THEN <<BrokenLink(k - 1)>> ELSE <<>>
    ELSE IF entries[k].PrevHash # GenesisHash
         THEN <<InvalidGenesis>> ELSE <<>>

\* A variant of the loop that returns at the first entry with a problem.
RECURSIVE VerifyLoop_ShortCircuit(_, _, _)
VerifyLoop_ShortCircuit(entries, k, errors) ==
    IF k > Len(entries) \/ Len(errors) > 0 THEN errors
    ELSE VerifyLoop_ShortCircuit(entries, k + 1,
                    errors \o HashCheck(entries, k) \o LinkCheck(entries, k))

RECURSIVE VerifyLoop(_, _, _)
VerifyLoop(entries, k, errors) ==
    IF k > Len(entries) THEN errors
    ELSE VerifyLoop(entries, k + 1,
                    errors \o HashCheck(entries, k) \o LinkCheck(entries, k))

VerifyChain(entries) ==
    LET errors == VerifyLoop(entries, 1, <<>>)
    IN [ok |-> Len(errors) = 0, errors |-> errors]

\* ------------------------------------------------------------ persistence
\* encoding/json writes a Go string as a JSON string coerced to valid UTF-8:
\* every invalid byte becomes U+FFFD.
ToValidUTF8(s) == [i \in 1..Len(s) |-> IF s[i] = BadByte THEN ReplacementRune ELSE s[i]]

\* `json:"metadata,omitempty"`: a map of length 0 (nil or empty) is left out.
MarshalMetadata(m) ==
    IF Cardinality(m.kv) = 0 THEN [present |-> FALSE, kv |-> {}]
    ELSE [present |-> TRUE, kv |-> m.kv]

\* time.Time marshals as its RFC 3339 text with nanoseconds.
MarshalEntry(e) ==
    [timestamp |-> FormatRFC3339Nano(e.Timestamp),
     message |-> ToValidUTF8(e.Message),
     signature |-> ToValidUTF8(e.Signature),
     pubkey |-> ToValidUTF8(e.PubKey),
     prev_hash |-> ToValidUTF8(e.PrevHash),
     current_hash |-> ToValidUTF8(e.CurrentHash),
     metadata |-> MarshalMetadata(e.Metadata)]

\* json.MarshalIndent(lc, "", "  "): the document { "entries": [...] }.
MarshalIndent(entries) == [i \in 1..Len(entries) |-> MarshalEntry(entries[i])]

\* time.Time.UnmarshalJSON: the instant the RFC 3339 text denotes.
ParseRFC3339(text) == CHOOSE t \in Instants : FormatRFC3339Nano(t) = text

UnmarshalMetadata(j) ==
    IF j.present THEN [nil |-> FALSE, kv |-> j.kv] ELSE NilMap

UnmarshalEntry(j) ==
    LogEntry(ParseRFC3339(j.timestamp), j.message, j.signature, j.pubkey,
             j.prev_hash, j.current_hash, UnmarshalMetadata(j.metadata))

Unmarshal(doc) == [i \in 1..Len(doc) |-> UnmarshalEntry(doc[i])]

\* json.Unmarshal decodes into the value it is given: a key the document
\* leaves out keeps the field's old value, and a map that is not nil receives
\* the document's keys.
UnmarshalMetadataInto(old, j) ==
    IF ~j.present THEN old
    ELSE [nil |-> FALSE,
          kv |-> j.kv \cup {p \in old.kv : \A q \in j.kv : q[1] # p[1]}]

UnmarshalEntryInto(old, j) ==
    LogEntry(ParseRFC3339(j.timestamp), j.message, j.signature, j.pubkey,
             j.prev_hash, j.current_hash,
             UnmarshalMetadataInto(old.Metadata, j.metadata))

\* The slice element the decoder writes entry i into: the old element, or a
\* zero one when the slice is grown (elements beyond the length are taken to
\* be zero).
ElementAt(entries, i) == IF i <= Len(entries) THEN entries[i] ELSE ZeroEntry

\* json.Unmarshal(data, lc) on a well-formed document: lc.Entries is decoded
\* element by element and cut to the document's length.
UnmarshalInto(entries, doc) ==
    [i \in 1..Len(doc) |-> UnmarshalEntryInto(ElementAt(entries, i), doc[i])]

\* json.Unmarshal(data, lc) on a document that is valid JSON but whose entry
\* number bad has a timestamp that is no RFC 3339 text: time.Time's
\* UnmarshalJSON returns an error and decoding stops there, with the entries
\* before it decoded, the slice grown to hold entry bad, and the old elements
\* from bad on left in place.
UnmarshalFailing(entries, doc, bad) ==
    [i \in 1..(IF Len(entries) > bad THEN Len(entries) ELSE bad) |->
        IF i < bad
        THEN UnmarshalEntryInto(ElementAt(entries, i), doc[i])
        ELSE ElementAt(entries, i)]

\* The backing file: absent, holding a document the engine wrote, cut short by
\* a failed write, or holding a document edited from outside into one whose
\* entry number bad does not decode.
NoFile == [state |-> "absent", doc |-> <<>>]
DocFile(doc) == [state |-> "doc", doc |-> doc]
TruncatedFile == [state |-> "truncated", doc |-> <<>>]
MalformedFile(doc, bad) == [state |-> "malformed", doc |-> doc, bad |-> bad]

\* A variant of Save that writes the newest entry only.
Save_OnlyLast(entries) ==
    [state |-> "doc",
     doc |-> MarshalIndent(SubSeq(entries, Len(entries), Len(entries)))]

\* Save when every step succeeds: the file holds the whole chain.
Save(entries) == DocFile(MarshalIndent(entries))

\* Save when a step fails: MkdirAll or opening the file fails (file untouched),
\* or the write fails after the file was truncated.
SaveFailures(f) == {f, TruncatedFile}

\* What the file system answers to one NewLogChain or Load: every call
\* succeeds, or os.MkdirAll, os.Stat or os.ReadFile returns an error (a
\* directory that cannot be created or searched, a file that cannot be opened).
IoOutcomes == {"ok", "mkdir fails", "stat fails", "read fails"}
ReadOutcomes == {"ok", "read fails"}

\* Load: os.ReadFile, then json.Unmarshal into the chain. A file cut short is
\* no valid JSON: Unmarshal rejects it before it decodes anything.
Load(f, entries, io) ==
    IF io = "read fails" \/ f.state = "absent" \/ f.state = "truncated"
    THEN [err |-> TRUE, Entries |-> entries]
    ELSE IF f.state = "malformed"
    THEN [err |-> TRUE, Entries |-> UnmarshalFailing(entries, f.doc, f.bad)]
    ELSE [err |-> FALSE, Entries |-> UnmarshalInto(entries, f.doc)]

\* Line 47: `if _, err := os.Stat(filePath); err == nil`. The file is loaded
\* when os.Stat returns no error, whatever the error is otherwise.
StatFinds(f, io) == f.state # "absent" /\ io # "stat fails"

\* NewLogChain: an empty chain, loaded from the file when os.Stat finds it;
\* (nil, error) when MkdirAll or Load fails.
NewLogChain(f, io) ==
    IF io = "mkdir fails"
    THEN [opened |-> TRUE, err |-> TRUE, Entries |-> <<>>]
    ELSE IF ~StatFinds(f, io)
    THEN [opened |-> TRUE, err |-> FALSE, Entries |-> <<>>]
    ELSE LET l == Load(f, <<>>, io)
         IN [opened |-> TRUE, err |-> l.err,
             Entries |-> IF l.err THEN <<>> ELSE l.Entries]

NotOpened == [opened |-> FALSE, err |-> FALSE, Entries |-> <<>>]

\* ---------------------------------------------------------------- AddLog
\* A variant that links every entry to the genesis sentinel.
PrevHashOf_Genesis(entries) == GenesisHash

\* Lines 61-65: the previous hash.
PrevHashOf(entries) ==
    IF Len(entries) > 0 THEN entries[Len(entries)].CurrentHash ELSE GenesisHash

\* A variant that computes the hash before PrevHash is set.
NewEntry_HashBeforeLink(entries, t, msg, sig, pk, meta) ==
    LET e == LogEntry(t, msg, sig, pk, <<>>, <<>>, meta)
    IN [e EXCEPT !.CurrentHash = calculateHash(e),
                 !.PrevHash = PrevHashOf(entries)]

\* Lines 67-78: the new entry, its hash computed over the other fields.
\* A variant that stamps only the first entry with the clock and leaves the
\* zero time in the later ones.
NewEntry_StaleStamp(entries, t, msg, sig, pk, meta) ==
    LET stamp == IF Len(entries) = 0 THEN t ELSE 0
        e == LogEntry(stamp, msg, sig, pk, PrevHashOf(entries), <<>>, meta)
    IN [e EXCEPT !.CurrentHash = calculateHash(e)]

NewEntry(entries, t, msg, sig, pk, meta) ==
    LET e == LogEntry(t, msg, sig, pk, PrevHashOf(entries), <<>>, meta)
    IN [e EXCEPT !.CurrentHash = calculateHash(e)]

\* Line 81.
\* A variant that puts the new entry in front.
AppendEntry_Prepend(entries, e) == <<e>> \o entries

AppendEntry(entries, e) == Append(entries, e)

\* A variant that undoes the append when Save fails.
EntriesAfterSaveError_RolledBack(entries) == SubSeq(entries, 1, Len(entries) - 1)

\* Lines 84-86: on a Save error AddLog returns at once; lc.Entries stays as
\* line 81 left it.
EntriesAfterSaveError(entries) == entries

\* ---------------------------------------------------------------- readers
\* A variant that returns the first entry's hash.
GetLastHash_First(entries) ==
    IF Len(entries) = 0 THEN GenesisHash ELSE entries[1].CurrentHash

GetLastHash(entries) ==
    IF Len(entries) = 0 THEN GenesisHash ELSE entries[Len(entries)].CurrentHash

\* A variant whose bounds check also rejects index 0.
GetEntry_ZeroRejected(entries, index) ==
    IF index <= 0 \/ index >= Len(entries)
    THEN [err |-> TRUE, entry |-> ZeroEntry]
    ELSE [err |-> FALSE, entry |-> entries[index + 1]]

\* index counts from 0, as in the source.
GetEntry(entries, index) ==
    IF index < 0 \/ index >= Len(entries)
    THEN [err |-> TRUE, entry |-> ZeroEntry]
    ELSE [err |-> FALSE, entry |-> entries[index + 1]]

\* time.Time.Equal, After, Before on instants.
TimeEqual(t, u) == t = u
TimeAfter(t, u) == t > u
TimeBefore(t, u) == t < u

\* A variant of the range test with exclusive bounds.
InRange_Exclusive(t, start, end) == TimeAfter(t, start) /\ TimeBefore(t, end)

\* Lines 164-165.
InRange(t, start, end) ==
    /\ TimeEqual(t, start) \/ TimeAfter(t, start)
    /\ TimeEqual(t, end) \/ TimeBefore(t, end)

RECURSIVE RangeLoop(_, _, _, _, _)
RangeLoop(entries, start, end, k, result) ==
    IF k > Len(entries) THEN result
    ELSE RangeLoop(entries, start, end, k + 1,
                   IF InRange(entries[k].Timestamp, start, end)
                   THEN Append(result, entries[k]) ELSE result)

GetEntriesRange(entries, start, end) == RangeLoop(entries, start, end, 1, <<>>)

\* json.MarshalIndent(lc.Entries, "", "  "): the array alone.
ExportJSON(entries) == [err |-> FALSE, json |-> MarshalIndent(entries)]

Stats(entries) ==
    [total_entries |-> Len(entries),
     last_hash |-> GetLastHash(entries),
     timestamps |-> IF Len(entries) > 0
                    THEN <<entries[1].Timestamp, entries[Len(entries)].Timestamp>>
                    ELSE <<>>]

\* -------------------------------------------------------------- signatures
\* A hex string is a sequence of characters; a byte is the pair of hex digits
\* that encodes it.
HexDigits == {"0", "1"}
NonHexChars == {"z"}

\* Key and signature lengths in bytes, scaled down from 32 and 64.
PublicKeySize == 1
SignatureSize == 2

\* encoding/hex Decode: pairs of digits are decoded from the left; at the first
\* character that is no hex digit, or at a last character without a partner,
\* the bytes decoded so far are returned with an error.
RECURSIVE DecodeLoop(_, _, _)
DecodeLoop(src, j, dst) ==
    IF j <= Len(src)
    THEN IF src[j - 1] \notin HexDigits \/ src[j] \notin HexDigits
         THEN [bytes |-> dst, err |-> TRUE]
         ELSE DecodeLoop(src, j + 2, Append(dst, <<src[j - 1], src[j]>>))
    ELSE [bytes |-> dst, err |-> Len(src) % 2 = 1]

DecodeString(s) == DecodeLoop(s, 2, <<>>)

\* hex.EncodeToString.
RECURSIVE EncodeToString(_)
EncodeToString(bytes) ==
    IF Len(bytes) = 0 THEN <<>>
    ELSE bytes[1] \o EncodeToString(Tail(bytes))

\* The digest of the message that the signature carries; it tells the
\* messages of the model apart.
MessageDigest(msg) ==
    IF msg = <<"a">> THEN <<"0", "0">> ELSE <<"0", "1">>

\* Ed25519 as an ideal deterministic scheme: the one signature of a message
\* under a key names the key and the message.
Ed25519Sign(pub, msg) == <<pub[1], MessageDigest(msg)>>

\* ed25519.Verify: panics on a public key of the wrong length, rejects a
\* signature of the wrong length, and accepts the signature of the message
\* under the key.
Ed25519Verify(pub, msg, sig) ==
    IF Len(pub) # PublicKeySize
    THEN [panic |-> TRUE, ok |-> FALSE]
    ELSE [panic |-> FALSE,
          ok |-> Len(sig) = SignatureSize /\ sig = Ed25519Sign(pub, msg)]

\* SignMessage: the hex text of the signature.
SignMessage(pub, msg) == EncodeToString(Ed25519Sign(pub, msg))

\* VerifySignature: `sig, _ := hex.DecodeString(sigHex)`, then ed25519.Verify.
VerifySignature(pub, msg, sigHex) ==
    Ed25519Verify(pub, msg, DecodeString(sigHex).bytes)

\* ------------------------------------------------------------------ state
NoReturn == [done |-> FALSE, err |-> FALSE, entry |-> ZeroEntry]
NoVerdict == [valid |-> FALSE, ok |-> FALSE, errors |-> <<>>]
Unlocked == [writer |-> NoProc, readers |-> 0]
NoTamper == [count |-> 0, index |-> 0, field |-> ""]
NoCall == [op |-> "none"]

\* The chain NewLogChain returns for a path without a file.
InitChain ==
    /\ Entries = <<>>
    /\ file = NoFile
    /\ mu = Unlocked
    /\ pc = [p \in Procs |-> "idle"]
    /\ entry = [p \in Procs |-> ZeroEntry]
    /\ ret = [p \in Procs |-> NoReturn]
    /\ lockOrder = <<>>
    /\ now = 0
    /\ unsaved = FALSE
    /\ saveErrors = 0
    /\ chain2 = NotOpened
    /\ tampers = NoTamper
    /\ verdict = NoVerdict

Init == InitChain /\ out = NoCall

\* A variant of Lock that excludes nobody.
CanLock_NoExclusion == TRUE

\* A variant of RLock that lets a reader in while a writer holds the mutex.
CanRLock_WriterIgnored == TRUE

\* sync.RWMutex: Lock succeeds when nobody holds the mutex; RLock when no
\* writer holds it and no writer waits in Lock (a blocked Lock call excludes
\* new readers from acquiring the lock).
CanLock == mu.writer = NoProc /\ mu.readers = 0
WriterWaiting == \E p \in Procs : pc[p] = "lock"
CanRLock == mu.writer = NoProc /\ ~WriterWaiting

\* The clock moves on.
Tick ==
    /\ now < MaxClock
    /\ now' = now + 1
    /\ UNCHANGED <<Entries, file, mu, pc, entry, ret, lockOrder, unsaved,
                   saveErrors, chain2, tampers, verdict, out>>

\* A caller enters AddLog and waits at lc.mu.Lock().
AddLogCall(p) ==
    /\ pc[p] = "idle"
    /\ pc' = [pc EXCEPT ![p] = "lock"]
    /\ UNCHANGED <<Entries, file, mu, entry, ret, lockOrder, now, unsaved,
                   saveErrors, chain2, tampers, verdict, out>>

\* Line 58: lc.mu.Lock() returns.
AddLogLock(p) ==
    /\ pc[p] = "lock"
    /\ CanLock
    /\ mu' = [mu EXCEPT !.writer = p]
    /\ lockOrder' = Append(lockOrder, p)
    /\ pc' = [pc EXCEPT ![p] = "append"]
    /\ UNCHANGED <<Entries, file, entry, ret, now, unsaved, saveErrors,
                   chain2, tampers, verdict, out>>

\* Lines 61-81: build the entry and append it to lc.Entries.
AddLogAppend(p, msg, sig, pk, meta) ==
    /\ pc[p] = "append"
    /\ LET e == NewEntry(Entries, now, msg, sig, pk, meta)
       IN /\ entry' = [entry EXCEPT ![p] = e]
          /\ Entries' = AppendEntry(Entries, e)
    /\ unsaved' = TRUE
    /\ chain2' = NotOpened
    /\ verdict' = NoVerdict
    /\ pc' = [pc EXCEPT ![p] = "save"]
    /\ UNCHANGED <<file, mu, ret, lockOrder, now, saveErrors, tampers, out>>

\* Lines 84-88 with Save succeeding: the entry is returned; the deferred
\* Unlock runs.
AddLogSave(p) ==
    /\ pc[p] = "save"
    /\ file' = Save(Entries)
    /\ unsaved' = FALSE
    /\ chain2' = NotOpened
    /\ ret' = [ret EXCEPT ![p] = [done |-> TRUE, err |-> FALSE, entry |-> entry[p]]]
    /\ mu' = [mu EXCEPT !.writer = NoProc]
    /\ pc' = [pc EXCEPT ![p] = "done"]
    /\ UNCHANGED <<Entries, entry, lockOrder, now, saveErrors, tampers, verdict, out>>

\* Lines 84-86 with Save failing: (nil, error) is returned, the appended entry
\* stays in lc.Entries; the deferred Unlock runs.
AddLogSaveFail(p) ==
    /\ pc[p] = "save"
    /\ file' \in SaveFailures(file)
    /\ saveErrors' = saveErrors + 1
    /\ chain2' = NotOpened
    /\ ret' = [ret EXCEPT ![p] = [done |-> TRUE, err |-> TRUE, entry |-> ZeroEntry]]
    /\ mu' = [mu EXCEPT !.writer = NoProc]
    /\ pc' = [pc EXCEPT ![p] = "done"]
    /\ Entries' = EntriesAfterSaveError(Entries)
    /\ UNCHANGED <<entry, lockOrder, now, unsaved, tampers, verdict, out>>

\* VerifyChain as one step under the read lock.
VerifyChainCall ==
    /\ CanRLock
    /\ ~verdict.valid
    /\ LET r == VerifyChain(Entries)
       IN verdict' = [valid |-> TRUE, ok |-> r.ok, errors |-> r.errors]
    /\ UNCHANGED <<Entries, file, mu, pc, entry, ret, lockOrder, now, unsaved,
                   saveErrors, chain2, tampers, out>>

\* Another NewLogChain on the same path (each CLI command opens the chain
\* anew), the file system answering every call.
Reopen ==
    /\ ~chain2.opened
    /\ chain2' = NewLogChain(file, "ok")
    /\ UNCHANGED <<Entries, file, mu, pc, entry, ret, lockOrder, now, unsaved,
                   saveErrors, tampers, verdict, out>>

Next ==
    \/ Tick
    \/ \E p \in Procs : AddLogCall(p)
    \/ \E p \in Procs : AddLogLock(p)
    \/ \E p \in Procs, msg \in Messages, sig \in Signatures, pk \in PubKeys,
          meta \in Metadatas : AddLogAppend(p, msg, sig, pk, meta)
    \/ \E p \in Procs : AddLogSave(p)
    \/ \E p \in Procs : AddLogSaveFail(p)
    \/ VerifyChainCall
    \/ Reopen

Spec == Init /\ [][Next]_vars

\* ------------------------------------------------ sequential driver, tampering
\* AddLog run from Lock to Unlock by a single caller, Save succeeding (the
\* calls of chain_test.go).
AddLog(msg, sig, pk, meta) ==
    /\ Len(Entries) < MaxEntries
    /\ tampers.count = 0
    /\ CanLock
    /\ \A p \in Procs : pc[p] = "idle"
    /\ LET e == NewEntry(Entries, now, msg, sig, pk, meta)
       IN /\ Entries' = AppendEntry(Entries, e)
          /\ file' = Save(AppendEntry(Entries, e))
          /\ out' = [op |-> "AddLog", err |-> FALSE, entry |-> e,
                     before |-> Entries]
    /\ verdict' = NoVerdict
    /\ UNCHANGED <<mu, pc, entry, ret, lockOrder, now, unsaved, saveErrors,
                   chain2, tampers>>

Fields == {"Timestamp", "Message", "Signature", "PubKey", "PrevHash",
           "CurrentHash", "Metadata"}

\* The values an external mutation may write into field f of entries[k].
TamperValues(entries, k, f) ==
    CASE f = "Timestamp" -> Instants
      [] f = "Message" -> Messages \cup {<<"t">>}
      [] f = "Signature" -> Signatures \cup {<<"z">>}
      [] f = "PubKey" -> PubKeys \cup {<<"z">>}
      [] f = "PrevHash" ->
            {GenesisHash, <<"xbad">>} \cup {entries[j].CurrentHash : j \in 1..Len(entries)}
      [] f = "CurrentHash" ->
            {<<"xbad">>, calculateHash(entries[k])}
                \cup {entries[j].PrevHash : j \in 1..Len(entries)}
      [] f = "Metadata" -> {NilMap, EmptyMap, TestMap}

\* A write to one field of a stored entry from outside the engine, as
\* chain.Entries[0].Message = "TAMPERED MESSAGE" in TestTamperedChain.
Tamper(k, f, v) ==
    /\ tampers.count < MaxTamper
    /\ k \in 1..Len(Entries)
    /\ v # Entries[k][f]
    /\ Entries' = [Entries EXCEPT ![k][f] = v]
    /\ tampers' = [count |-> tampers.count + 1, index |-> k - 1, field |-> f]
    /\ verdict' = NoVerdict
    /\ UNCHANGED <<file, mu, pc, entry, ret, lockOrder, now, unsaved,
                   saveErrors, chain2, out>>

NextTamper ==
    \/ \E msg \in Messages, sig \in Signatures, pk \in PubKeys :
          AddLog(msg, sig, pk, NilMap)
    \/ \E k \in 1..Len(Entries), f \in Fields :
          \E v \in TamperValues(Entries, k, f) : Tamper(k, f, v)
    \/ VerifyChainCall

SpecTamper == Init /\ [][NextTamper]_vars

\* ------------------------------------------------ sequential driver, the API
\* The exported functions called one after the other by a single caller, each
\* from its Lock or RLock to its return.
Indexes == -1..MaxEntries

\* AddLog from Lock to Unlock with Save failing: (nil, error).
AddLogFails(msg, sig, pk, meta) ==
    /\ Len(Entries) < MaxEntries
    /\ tampers.count = 0
    /\ CanLock
    /\ \A p \in Procs : pc[p] = "idle"
    /\ LET e == NewEntry(Entries, now, msg, sig, pk, meta)
       IN Entries' = EntriesAfterSaveError(AppendEntry(Entries, e))
    /\ file' \in SaveFailures(file)
    /\ saveErrors' = saveErrors + 1
    /\ unsaved' = TRUE
    /\ out' = [op |-> "AddLog", err |-> TRUE, entry |-> ZeroEntry,
               before |-> Entries]
    /\ verdict' = NoVerdict
    /\ UNCHANGED <<mu, pc, entry, ret, lockOrder, now, chain2, tampers>>

GetLastHashCall ==
    /\ CanRLock
    /\ out' = [op |-> "GetLastHash", hash |-> GetLastHash(Entries),
               before |-> Entries]
    /\ UNCHANGED <<Entries, file, mu, pc, entry, ret, lockOrder, now, unsaved,
                   saveErrors, chain2, tampers, verdict>>

GetEntryCall(index) ==
    /\ CanRLock
    /\ LET r == GetEntry(Entries, index)
       IN out' = [op |-> "GetEntry", index |-> index, err |-> r.err,
                  entry |-> r.entry, before |-> Entries]
    /\ UNCHANGED <<Entries, file, mu, pc, entry, ret, lockOrder, now, unsaved,
                   saveErrors, chain2, tampers, verdict>>

GetEntriesRangeCall(start, end) ==
    /\ CanRLock
    /\ out' = [op |-> "GetEntriesRange", start |-> start, end |-> end,
               entries |-> GetEntriesRange(Entries, start, end),
               before |-> Entries]
    /\ UNCHANGED <<Entries, file, mu, pc, entry, ret, lockOrder, now, unsaved,
                   saveErrors, chain2, tampers, verdict>>

ExportJSONCall ==
    /\ CanRLock
    /\ LET r == ExportJSON(Entries)
       IN out' = [op |-> "ExportJSON", err |-> r.err, json |-> r.json,
                  before |-> Entries]
    /\ UNCHANGED <<Entries, file, mu, pc, entry, ret, lockOrder, now, unsaved,
                   saveErrors, chain2, tampers, verdict>>

StatsCall ==
    /\ CanRLock
    /\ out' = [op |-> "Stats", stats |-> Stats(Entries), before |-> Entries]
    /\ UNCHANGED <<Entries, file, mu, pc, entry, ret, lockOrder, now, unsaved,
                   saveErrors, chain2, tampers, verdict>>

\* Save called on its own.
SaveCall ==
    /\ file' = Save(Entries)
    /\ unsaved' = FALSE
    /\ out' = [op |-> "Save", err |-> FALSE, before |-> Entries]
    /\ UNCHANGED <<Entries, mu, pc, entry, ret, lockOrder, now, saveErrors,
                   chain2, tampers, verdict>>

NextApi ==
    \/ Tick
    \/ \E msg \in Messages, sig \in Signatures, pk \in PubKeys :
          AddLog(msg, sig, pk, NilMap)
    \/ \E msg \in Messages, sig \in Signatures, pk \in PubKeys :
          AddLogFails(msg, sig, pk, NilMap)
    \/ VerifyChainCall
    \/ GetLastHashCall
    \/ \E index \in Indexes : GetEntryCall(index)
    \/ \E start \in Instants, end \in Instants : GetEntriesRangeCall(start, end)
    \/ ExportJSONCall
    \/ StatsCall
    \/ SaveCall

SpecApi == Init /\ [][NextApi]_vars

\* ------------------------------------------- sequential driver, open and load
\* The chain that writes the file, the file edited from outside, and a second
\* handle on the same path that is opened with NewLogChain and reloaded with
\* Load.

\* An edit of the file from outside the engine: the timestamp of entry k is
\* replaced by a text that is no RFC 3339 time.
CorruptFile(k) ==
    /\ file.state = "doc"
    /\ k \in 1..Len(file.doc)
    /\ file' = MalformedFile(file.doc, k)
    /\ UNCHANGED <<Entries, mu, pc, entry, ret, lockOrder, now, unsaved,
                   saveErrors, chain2, tampers, verdict, out>>

\* NewLogChain on the path of the chain, from the call to the return.
NewLogChainCall(io) ==
    /\ chain2' = NewLogChain(file, io)
    /\ out' = [op |-> "NewLogChain", io |-> io, err |-> chain2'.err,
               chain |-> ~chain2'.err, entries |-> chain2'.Entries]
    /\ UNCHANGED <<Entries, file, mu, pc, entry, ret, lockOrder, now, unsaved,
                   saveErrors, tampers, verdict>>

\* Load called on the handle NewLogChain returned.
LoadCall(io) ==
    /\ chain2.opened
    /\ ~chain2.err
    /\ LET r == Load(file, chain2.Entries, io)
       IN /\ chain2' = [chain2 EXCEPT !.Entries = r.Entries]
          /\ out' = [op |-> "Load", io |-> io, err |-> r.err, file |-> file,
                     before |-> chain2.Entries, after |-> r.Entries]
    /\ UNCHANGED <<Entries, file, mu, pc, entry, ret, lockOrder, now, unsaved,
                   saveErrors, tampers, verdict>>

NextLoad ==
    \/ \E msg \in Messages, sig \in Signatures, pk \in PubKeys :
          AddLog(msg, sig, pk, NilMap)
    \/ \E msg \in Messages, sig \in Signatures, pk \in PubKeys :
          AddLogFails(msg, sig, pk, NilMap)
    \/ \E k \in 1..MaxEntries : CorruptFile(k)
    \/ \E io \in IoOutcomes : NewLogChainCall(io)
    \/ \E io \in ReadOutcomes : LoadCall(io)

SpecLoad == Init /\ [][NextLoad]_vars

\* ------------------------------------------------------ signature checks
\* Public keys of the right length and of a wrong one, and every string of up
\* to MaxSigHexLen characters as the signature.
VerifyKeys == {<<<<"0", "0">>>>, <<<<"0", "1">>>>, <<>>}
SigHexStrings ==
    UNION {[1..n -> HexDigits \cup NonHexChars] : n \in 0..MaxSigHexLen}


\* The arguments of one call of VerifySignature.
SigArgs ==
    {[op |-> "args", pub |-> pub, msg |-> msg, sigHex |-> sigHex] :
        pub \in VerifyKeys, msg \in Messages, sigHex \in SigHexStrings}

InitSig == InitChain /\ out \in SigArgs

VerifySignatureCall ==
    /\ out.op = "args"
    /\ LET r == VerifySignature(out.pub, out.msg, out.sigHex)
       IN out' = [op |-> "VerifySignature", pub |-> out.pub, msg |-> out.msg,
                  sigHex |-> out.sigHex, panic |-> r.panic, result |-> r.ok]
    /\ UNCHANGED <<Entries, file, mu, pc, entry, ret, lockOrder, now, unsaved,
                   saveErrors, chain2, tampers, verdict>>

NextSig == VerifySignatureCall

SpecSig == InitSig /\ [][NextSig]_vars

\* ----------------------------------------- sequential driver, separator
\* Messages and signatures that hold the separator '|', and the replacement
\* of a stored entry's message and signature by another split of the same
\* joined text.
SplitMessages == {<<"a">>, <<"a", "|", "b">>}
SplitSignatures == {<<"c">>, <<"b", "|", "c">>}

\* The other (message, signature) pairs whose '|'-joined text is that of e.
Resplits(e) ==
    {r \in [Message : SplitMessages, Signature : SplitSignatures] :
        /\ r.Message # e.Message \/ r.Signature # e.Signature
        /\ r.Message \o <<"|">> \o r.Signature
              = e.Message \o <<"|">> \o e.Signature}

\* A write to the message and the signature of a stored entry from outside
\* the engine.
Resplit(k, r) ==
    /\ tampers.count < MaxTamper
    /\ k \in 1..Len(Entries)
    /\ r \in Resplits(Entries[k])
    /\ Entries' = [Entries EXCEPT ![k].Message = r.Message,
                                  ![k].Signature = r.Signature]
    /\ tampers' = [count |-> tampers.count + 1, index |-> k - 1,
                   field |-> "Message|Signature"]
    /\ verdict' = NoVerdict
    /\ UNCHANGED <<file, mu, pc, entry, ret, lockOrder, now, unsaved,
                   saveErrors, chain2, out>>

NextSplit ==
    \/ Tick
    \/ \E msg \in SplitMessages, sig \in SplitSignatures, pk \in PubKeys :
          AddLog(msg, sig, pk, NilMap)
    \/ \E k \in 1..MaxEntries :
          \E r \in [Message : SplitMessages, Signature : SplitSignatures] :
              Resplit(k, r)
    \/ VerifyChainCall

SpecSplit == Init /\ [][NextSplit]_vars

\* ------------------------------------- sequential driver, unchecked strings
\* AddLog called with strings of every kind: empty ones, texts that are no
\* hex, and the hex of a key with a signature that matches the message "a"
\* and no other.
SignerKey == <<<<"0", "0">>>>
TrustMessages == Messages \cup {<<>>}
TrustSignatures == {<<>>, <<"s">>, SignMessage(SignerKey, <<"a">>)}
TrustPubKeys == {<<>>, <<"k">>, EncodeToString(SignerKey)}

NextTrust ==
    \/ \E msg \in TrustMessages, sig \in TrustSignatures, pk \in TrustPubKeys :
          AddLog(msg, sig, pk, NilMap)
    \/ VerifyChainCall

SpecTrust == Init /\ [][NextTrust]_vars

\* --------------------------------------------- concurrent readers and writers
\* Every caller runs one call on the chain: AddLog, one of the readers that
\* take the read lock once (VerifyChain, GetLastHash, GetEntry,
\* GetEntriesRange, ExportJSON), or Stats, which takes the read lock and then
\* calls GetLastHash. The server's getLogs handler reads the entries as well.
ReaderOps == {"VerifyChain", "GetLastHash", "GetEntry", "GetEntriesRange",
              "ExportJSON"}

\* The callers AddLog has locked out or is about to: inside the write-locked
\* section, and inside a read-locked one.
Writing == {p \in Procs : pc[p] \in {"append", "save"}}
Reading == {p \in Procs : pc[p] \in {"read", "stats", "lasthash"}}

\* A caller enters a reader and waits at lc.mu.RLock().
ReaderCall(p) ==
    /\ pc[p] = "idle"
    /\ pc' = [pc EXCEPT ![p] = "rlock"]
    /\ UNCHANGED <<Entries, file, mu, entry, ret, lockOrder, now, unsaved,
                   saveErrors, chain2, tampers, verdict, out>>

\* lc.mu.RLock() returns.
ReaderRLock(p) ==
    /\ pc[p] = "rlock"
    /\ CanRLock
    /\ mu' = [mu EXCEPT !.readers = mu.readers + 1]
    /\ pc' = [pc EXCEPT ![p] = "read"]
    /\ UNCHANGED <<Entries, file, entry, ret, lockOrder, now, unsaved,
                   saveErrors, chain2, tampers, verdict, out>>

\* The reader reads lc.Entries and returns; the deferred RUnlock runs.
ReaderReturn(p, op) ==
    /\ pc[p] = "read"
    /\ out' = [op |-> op, proc |-> p, entries |-> Entries,
               locked |-> mu.readers > 0, writers |-> Writing]
    /\ mu' = [mu EXCEPT !.readers = mu.readers - 1]
    /\ pc' = [pc EXCEPT ![p] = "done"]
    /\ UNCHANGED <<Entries, file, entry, ret, lockOrder, now, unsaved,
                   saveErrors, chain2, tampers, verdict>>

\* A caller enters Stats and waits at lc.mu.RLock() (line 220).
StatsBegin(p) ==
    /\ pc[p] = "idle"
    /\ pc' = [pc EXCEPT ![p] = "srlock"]
    /\ UNCHANGED <<Entries, file, mu, entry, ret, lockOrder, now, unsaved,
                   saveErrors, chain2, tampers, verdict, out>>

\* Line 220: lc.mu.RLock() returns; Stats goes on to call GetLastHash.
StatsRLock(p) ==
    /\ pc[p] = "srlock"
    /\ CanRLock
    /\ mu' = [mu EXCEPT !.readers = mu.readers + 1]
    /\ pc' = [pc EXCEPT ![p] = "stats"]
    /\ UNCHANGED <<Entries, file, entry, ret, lockOrder, now, unsaved,
                   saveErrors, chain2, tampers, verdict, out>>

\* Lines 225 and 137: GetLastHash, called by Stats, takes the read lock again.
StatsGetLastHashRLock(p) ==
    /\ pc[p] = "stats"
    /\ CanRLock
    /\ mu' = [mu EXCEPT !.readers = mu.readers + 1]
    /\ pc' = [pc EXCEPT ![p] = "lasthash"]
    /\ UNCHANGED <<Entries, file, entry, ret, lockOrder, now, unsaved,
                   saveErrors, chain2, tampers, verdict, out>>

\* GetLastHash returns and its RUnlock runs; Stats returns the map and its
\* RUnlock runs.
StatsReturn(p) ==
    /\ pc[p] = "lasthash"
    /\ out' = [op |-> "Stats", proc |-> p, entries |-> Entries,
               locked |-> mu.readers > 0, writers |-> Writing,
               stats |-> Stats(Entries)]
    /\ mu' = [mu EXCEPT !.readers = mu.readers - 2]
    /\ pc' = [pc EXCEPT ![p] = "done"]
    /\ UNCHANGED <<Entries, file, entry, ret, lockOrder, now, unsaved,
                   saveErrors, chain2, tampers, verdict>>

\* The server's getLogs: `entries := config.LogChain.Entries`, no lock taken.
GetLogsUnlocked ==
    /\ out' = [op |-> "getLogs", proc |-> NoProc, entries |-> Entries,
               locked |-> FALSE, writers |-> Writing]
    /\ UNCHANGED <<Entries, file, mu, pc, entry, ret, lockOrder, now, unsaved,
                   saveErrors, chain2, tampers, verdict>>

\* The steps of caller p.
CallerNext(p) ==
    \/ AddLogCall(p)
    \/ AddLogLock(p)
    \/ AddLogAppend(p, <<"a">>, <<"s">>, <<"k">>, NilMap)
    \/ AddLogSave(p)
    \/ AddLogSaveFail(p)
    \/ ReaderCall(p)
    \/ ReaderRLock(p)
    \/ \E op \in ReaderOps : ReaderReturn(p, op)
    \/ StatsBegin(p)
    \/ StatsRLock(p)
    \/ StatsGetLastHashRLock(p)
    \/ StatsReturn(p)

NextLock ==
    \/ \E p \in Procs : CallerNext(p)
    \/ GetLogsUnlocked

SpecLock == Init /\ [][NextLock]_vars

\* The Go scheduler runs every goroutine that can take a step.
SpecLockFair == SpecLock /\ \A p \in Procs : WF_vars(CallerNext(p))

\* ------------------------------------------------------- the server's handlers
\* The routes of the /api/v1/logs group, in the order setupRoutes registers
\* them. A path is the sequence of characters after "/api/v1/logs/".
Routes ==
    << [method |-> "POST", pattern |-> "/", handler |-> "submitLog"],
       [method |-> "GET", pattern |-> "/", handler |-> "getLogs"],
       [method |-> "GET", pattern |-> "/:id", handler |-> "getLogById"],
       [method |-> "GET", pattern |-> "/range", handler |-> "getLogsByRange"] >>

RangePath == <<"r", "a", "n", "g", "e">>

\* Fiber's route match: "/" is the group's root, ":id" takes any one
\* non-empty segment, "/range" the constant segment.
RouteMatches(route, method, path) ==
    /\ route.method = method
    /\ CASE route.pattern = "/" -> path = <<>>
         [] route.pattern = "/:id" -> path # <<>>
         [] route.pattern = "/range" -> path = RangePath

\* The router walks the routes in registration order; the first that matches
\* handles the request.
Dispatch(method, path) ==
    LET hits == {i \in 1..Len(Routes) : RouteMatches(Routes[i], method, path)}
    IN IF hits = {} THEN "none"
       ELSE Routes[CHOOSE i \in hits : \A j \in hits : i <= j].handler

\* fmt.Sscanf(id, "%d", &index): the decimal digits the text starts with;
\* an error when it starts with none.
Digits == <<"0", "1", "2", "3", "4", "5", "6", "7", "8", "9">>
DigitValue(ch) == (CHOOSE i \in 1..Len(Digits) : Digits[i] = ch) - 1
IsDigit(ch) == \E i \in 1..Len(Digits) : Digits[i] = ch

RECURSIVE ScanDigits(_, _, _)
ScanDigits(text, k, value) ==
    IF k <= Len(text) /\ IsDigit(text[k])
    THEN ScanDigits(text, k + 1, 10 * value + DigitValue(text[k]))
    ELSE value

Sscanf(text) ==
    IF text = <<>> \/ ~IsDigit(text[1])
    THEN [err |-> TRUE, index |-> 0]
    ELSE [err |-> FALSE, index |-> ScanDigits(text, 1, 0)]

\* time.Parse(time.RFC3339, text).
TimeParse(text) ==
    IF \E t \in Instants : FormatRFC3339Nano(t) = text
    THEN [err |-> FALSE, t |-> ParseRFC3339(text)]
    ELSE [err |-> TRUE, t |-> 0]

\* getLogs with the default limit and offset.
getLogs(entries) ==
    [status |-> 200, entries |-> entries, count |-> Len(entries)]

getLogById(entries, id) ==
    IF Sscanf(id).err
    THEN [status |-> 400, entries |-> <<>>, count |-> 0]
    ELSE IF GetEntry(entries, Sscanf(id).index).err
         THEN [status |-> 404, entries |-> <<>>, count |-> 0]
         ELSE [status |-> 200,
               entries |-> <<GetEntry(entries, Sscanf(id).index).entry>>,
               count |-> 1]

getLogsByRange(entries, startStr, endStr) ==
    IF startStr = <<>> \/ endStr = <<>>
    THEN [status |-> 400, entries |-> <<>>, count |-> 0]
    ELSE IF TimeParse(startStr).err \/ TimeParse(endStr).err
         THEN [status |-> 400, entries |-> <<>>, count |-> 0]
         ELSE LET found == GetEntriesRange(entries, TimeParse(startStr).t,
                                           TimeParse(endStr).t)
              IN [status |-> 200, entries |-> found, count |-> Len(found)]

\* The paths and query texts of the GET requests.
Paths == {<<>>, <<"0">>, <<"7">>, <<"1", "x">>, RangePath}
QueryStarts == {<<>>, <<"x">>, FormatRFC3339Nano(0)}
QueryEnds == {<<>>, FormatRFC3339Nano(0), FormatRFC3339Nano(MaxClock)}

\* A GET under /api/v1/logs: the router picks the handler, the handler
\* answers.
ServeGet(path, startStr, endStr) ==
    /\ tampers.count = 0
    /\ LET handler == Dispatch("GET", path)
           response ==
               CASE handler = "getLogs" -> getLogs(Entries)
                 [] handler = "getLogById" -> getLogById(Entries, path)
                 [] handler = "getLogsByRange" ->
                        getLogsByRange(Entries, startStr, endStr)
       IN out' = [op |-> "GET", path |-> path, start |-> startStr,
                  end |-> endStr, handler |-> handler,
                  status |-> response.status, entries |-> response.entries]
    /\ UNCHANGED <<Entries, file, mu, pc, entry, ret, lockOrder, now, unsaved,
                   saveErrors, chain2, tampers, verdict>>

\* A variant of the checks that never answers 401.
submitLogChecks_Unverified(req) ==
    IF ~req.parsed THEN 400
    ELSE IF req.message = <<>> \/ req.signature = <<>> \/ req.pubkey = <<>>
    THEN 400
    ELSE IF DecodeString(req.pubkey).err THEN 400
    ELSE IF DecodeString(req.signature).err THEN 400
    ELSE IF Len(DecodeString(req.pubkey).bytes) # PublicKeySize THEN 500
    ELSE 0

\* submitLog up to the verification (lines 112-146): the status it answers
\* with, 0 when the request passes. A panic of ed25519.Verify on a key of
\* the wrong length is answered 500 by the recover middleware.
submitLogChecks(req) ==
    IF ~req.parsed THEN 400
    ELSE IF req.message = <<>> \/ req.signature = <<>> \/ req.pubkey = <<>>
    THEN 400
    ELSE IF DecodeString(req.pubkey).err THEN 400
    ELSE IF DecodeString(req.signature).err THEN 400
    ELSE LET verified == Ed25519Verify(DecodeString(req.pubkey).bytes,
                                       req.message,
                                       DecodeString(req.signature).bytes)
         IN IF verified.panic THEN 500
            ELSE IF ~verified.ok THEN 401
            ELSE 0

\* Lines 149-153: the metadata the server stores with the entry.
ServerMetadata(meta, agent, t) ==
    [nil |-> FALSE,
     kv |-> meta.kv \cup {<<"agent_id", agent>>,
                          <<"server_received", FormatRFC3339Nano(t)[1]>>}]

\* The bodies submitLog receives: one that does not parse, and those that
\* do, with a message, a signature and a public key that are empty, no hex,
\* hex of the wrong length, or the hex of a key and of a signature made with
\* a key.
OtherKey == <<<<"0", "1">>>>
Requests ==
    {[parsed |-> FALSE, message |-> <<>>, signature |-> <<>>,
      pubkey |-> <<>>]}
    \cup [parsed : {TRUE},
          message : {<<>>, <<"a">>, <<"b">>},
          signature : {<<>>, <<"z">>, <<"0">>,
                       SignMessage(SignerKey, <<"a">>)},
          pubkey : {<<>>, <<"z">>, <<"0", "0", "0", "0">>,
                    EncodeToString(SignerKey), EncodeToString(OtherKey)}]

\* POST /api/v1/logs: submitLog. The request is rejected by the checks, or
\* handed to AddLog, whose Save succeeds (201) or fails (500).
SubmitLogCall(req, saved) ==
    /\ tampers.count = 0
    /\ Dispatch("POST", <<>>) = "submitLog"
    /\ LET status == submitLogChecks(req)
           meta == ServerMetadata(NilMap, "agent", now)
           e == NewEntry(Entries, now, req.message, req.signature, req.pubkey,
                         meta)
       IN IF status # 0
          THEN /\ saved
               /\ out' = [op |-> "submitLog", req |-> req, status |-> status,
                          before |-> Entries, fileBefore |-> file]
               /\ UNCHANGED <<Entries, file, unsaved, saveErrors>>
          ELSE /\ Len(Entries) < MaxEntries
               /\ IF saved
                  THEN /\ Entries' = AppendEntry(Entries, e)
                       /\ file' = Save(AppendEntry(Entries, e))
                       /\ UNCHANGED <<unsaved, saveErrors>>
                  ELSE /\ Entries' =
                              EntriesAfterSaveError(AppendEntry(Entries, e))
                       /\ file' \in SaveFailures(file)
                       /\ saveErrors' = saveErrors + 1
                       /\ unsaved' = TRUE
               /\ out' = [op |-> "submitLog", req |-> req,
                          status |-> IF saved THEN 201 ELSE 500,
                          before |-> Entries, fileBefore |-> file]
    /\ UNCHANGED <<mu, pc, entry, ret, lockOrder, now, chain2, tampers,
                   verdict>>

NextServer ==
    \/ Tick
    \/ \E req \in Requests, saved \in BOOLEAN : SubmitLogCall(req, saved)
    \/ \E path \in Paths, startStr \in QueryStarts, endStr \in QueryEnds :
           ServeGet(path, startStr, endStr)

SpecServer == Init /\ [][NextServer]_vars

\* ------------------------------------------------------- consistent rewrites
\* The fields of an entry that carry what was logged; PrevHash and
\* CurrentHash are the hash linker's.
LoggedFields == {"Timestamp", "Message", "Signature", "PubKey", "Metadata"}

\* `entry.CurrentHash = lc.calculateHash(entry)`.
Rehash(e) == [e EXCEPT !.CurrentHash = calculateHash(e)]

\* A variant that leaves the later entries as they are.
RelinkFrom_Stale(entries, k) == entries

\* The hash linker applied again to entries k, k+1, ...: prev_hash is the
\* current hash of the entry before, current_hash is recomputed.
RECURSIVE RelinkFrom(_, _)
RelinkFrom(entries, k) ==
    IF k > Len(entries) THEN entries
    ELSE LET e == [entries[k] EXCEPT !.PrevHash = entries[k - 1].CurrentHash]
         IN RelinkFrom([entries EXCEPT ![k] = Rehash(e)], k + 1)

\* Field f of entry k is overwritten with v, then the hashes of entry k and
\* of every later entry are recomputed.
ConsistentRewrite(entries, k, f, v) ==
    RelinkFrom([entries EXCEPT ![k] = Rehash([entries[k] EXCEPT ![f] = v])],
               k + 1)

\* The values a rewrite puts into a logged field.
RewriteValues(f) ==
    CASE f = "Timestamp" -> Instants
      [] f = "Message" -> {<<"t">>}
      [] f = "Signature" -> {<<"z">>}
      [] f = "PubKey" -> {<<"z">>}
      [] f = "Metadata" -> {TestMap}

\* A write to the stored entries from outside the engine that rewrites
\* entry k and relinks the chain after it.
Rewrite(k, f, v) ==
    /\ tampers.count < MaxTamper
    /\ k \in 1..Len(Entries)
    /\ v # Entries[k][f]
    /\ Entries' = ConsistentRewrite(Entries, k, f, v)
    /\ tampers' = [count |-> tampers.count + 1, index |-> k - 1, field |-> f]
    /\ verdict' = NoVerdict
    /\ UNCHANGED <<file, mu, pc, entry, ret, lockOrder, now, unsaved,
                   saveErrors, chain2, out>>

NextRewrite ==
    \/ \E msg \in Messages, sig \in Signatures, pk \in PubKeys :
          AddLog(msg, sig, pk, NilMap)
    \/ \E k \in 1..Len(Entries), f \in LoggedFields :
          \E v \in RewriteValues(f) : Rewrite(k, f, v)
    \/ VerifyChainCall

SpecRewrite == Init /\ [][NextRewrite]_vars

\* ------------------------------------------------------------- truncation
\* A variant that removes the oldest entries instead of the most recent.
Truncated_Head(entries, n) == SubSeq(entries, Len(entries) - n + 1, Len(entries))

\* The first n elements of a sequence of entries, or of the entries of a
\* document: what is left when the most recent ones are removed.
Truncated(entries, n) == SubSeq(entries, 1, n)

\* The most recent entries are removed from lc.Entries, n are left.
TruncateStore(n) ==
    /\ n \in 0..(Len(Entries) - 1)
    /\ Entries' = Truncated(Entries, n)
    /\ out' = [op |-> "Truncate", where |-> "store", before |-> Entries,
               okBefore |-> VerifyChain(Entries).ok, tampers |-> tampers.count]
    /\ verdict' = NoVerdict
    /\ UNCHANGED <<file, mu, pc, entry, ret, lockOrder, now, unsaved,
                   saveErrors, chain2, tampers>>

\* The most recent entries are removed from the backing file, n are left,
\* and the chain is opened from the file again.
TruncateFile(n) ==
    /\ file.state = "doc"
    /\ n \in 0..(Len(file.doc) - 1)
    /\ file' = DocFile(Truncated(file.doc, n))
    /\ Entries' = NewLogChain(DocFile(Truncated(file.doc, n)), "ok").Entries
    /\ out' = [op |-> "Truncate", where |-> "file",
               before |-> NewLogChain(file, "ok").Entries,
               okBefore |-> VerifyChain(NewLogChain(file, "ok").Entries).ok,
               tampers |-> tampers.count]
    /\ verdict' = NoVerdict
    /\ UNCHANGED <<mu, pc, entry, ret, lockOrder, now, unsaved, saveErrors,
                   chain2, tampers>>

NextTruncate ==
    \/ \E msg \in Messages, sig \in Signatures, pk \in PubKeys :
          AddLog(msg, sig, pk, NilMap)
    \/ \E k \in 1..Len(Entries), f \in {"Message", "PrevHash"} :
          \E v \in {<<"t">>, <<"xbad">>} : Tamper(k, f, v)
    \/ \E n \in 0..MaxEntries : TruncateStore(n)
    \/ \E n \in 0..MaxEntries : TruncateFile(n)
    \/ VerifyChainCall

SpecTruncate == Init /\ [][NextTruncate]_vars

\* ----------------------------------------------------- returned references
\* A variant of GetEntry that returns the address of a copy.
GetEntryRef_Copy(index) == [stored |-> FALSE, index |-> index]

\* Line 154: `return &lc.Entries[index], nil`, the address of the element of
\* the stored sequence.
GetEntryRef(index) == [stored |-> TRUE, index |-> index]

\* Line 88: `return &entry, nil`, the address of AddLog's local variable, of
\* which line 81 appended a copy.
AddLogRef(index) == [stored |-> FALSE, index |-> index]

\* `ref.Field = v` by the caller that holds the reference: the stored
\* sequence changes when the reference points into it.
WriteField(entries, ref, f, v) ==
    IF ref.stored THEN [entries EXCEPT ![ref.index + 1][f] = v] ELSE entries

\* The values a caller writes into a field.
WriteValues(f) ==
    IF f = "Timestamp" THEN {MaxClock}
    ELSE IF f \in LoggedFields THEN RewriteValues(f) ELSE {<<"xbad">>}

\* The caller of the last GetEntry or AddLog writes field f of the entry it
\* was handed: out holds the call the reference came from and the entry as
\* the caller sees it.
WriteReturned(f, v) ==
    /\ tampers.count < MaxTamper
    /\ out.op \in {"GetEntry", "AddLog", "Write"}
    /\ ~out.err
    /\ v # out.entry[f]
    /\ LET via == IF out.op = "Write" THEN out.via ELSE out.op
           index == IF out.op = "AddLog" THEN Len(out.before) ELSE out.index
           ref == IF via = "GetEntry" THEN GetEntryRef(index)
                  ELSE AddLogRef(index)
       IN /\ Entries' = WriteField(Entries, ref, f, v)
          /\ out' = [op |-> "Write", via |-> via, index |-> index,
                     err |-> FALSE, field |-> f,
                     entry |-> [out.entry EXCEPT ![f] = v],
                     before |-> Entries]
          /\ tampers' = [count |-> tampers.count + 1, index |-> index,
                         field |-> f]
    /\ verdict' = NoVerdict
    /\ UNCHANGED <<file, mu, pc, entry, ret, lockOrder, now, unsaved,
                   saveErrors, chain2>>

NextAlias ==
    \/ AddLog(<<"a">>, <<"s">>, <<"k">>, NilMap)
    \/ \E index \in Indexes : GetEntryCall(index)
    \/ \E f \in Fields : \E v \in WriteValues(f) : WriteReturned(f, v)
    \/ VerifyChainCall

SpecAlias == Init /\ [][NextAlias]_vars

\* ================================================================ claims
Range(s) == {s[i] : i \in 1..Len(s)}
Quiescent == \A p \in Procs : pc[p] \in {"idle", "done"}
Finished == {p \in Procs : pc[p] = "done"}

\* C1: after N >= 1 AddLog calls on a chain that started empty, the first
\* entry's prev_hash is the genesis sentinel "0" and every later entry's
\* prev_hash is the current_hash of the entry before it.
C1_Linked ==
    Len(Entries) >= 1 =>
        /\ Entries[1].PrevHash = GenesisHash
        /\ \A k \in 2..Len(Entries) :
              Entries[k].PrevHash = Entries[k - 1].CurrentHash

C1_Witness ==
    /\ Len(Entries) >= 2
    /\ \A p \in Procs : pc[p] = "done" /\ ~ret[p].err

\* C2: in every state reached through the engine's own operations (AddLog,
\* Save, reopening a file the engine wrote) every stored entry, of the chain
\* and of a chain reopened on its file, has
\* current_hash = calculateHash(timestamp, message, signature, pubkey, prev_hash).
C2_HashInvariant ==
    /\ \A k \in 1..Len(Entries) :
          Entries[k].CurrentHash = calculateHash(Entries[k])
    /\ \A k \in 1..Len(chain2.Entries) :
          chain2.Entries[k].CurrentHash = calculateHash(chain2.Entries[k])

\* C3: on a non-empty chain built by AddLog alone, VerifyChain returns ok with
\* no problems.
C3_VerifyOkAfterAppends ==
    (verdict.valid /\ Len(Entries) >= 1) =>
        verdict.ok /\ verdict.errors = <<>>

C3_Witness == verdict.valid /\ Len(Entries) >= 2 /\ Quiescent

\* C9: when N concurrent AddLog calls have all returned and no Save failed,
\* every call returned an entry, the chain holds exactly N entries, the entry at
\* position k is the one returned to the k-th caller to acquire the write lock,
\* and VerifyChain returns ok.
C9_ConcurrentAppends ==
    (Quiescent /\ saveErrors = 0) =>
        /\ \A p \in Finished : ~ret[p].err
        /\ Len(Entries) = Cardinality(Finished)
        /\ Len(lockOrder) = Len(Entries)
        /\ \A k \in 1..Len(Entries) :
              /\ lockOrder[k] \in Finished
              /\ Entries[k] = ret[lockOrder[k]].entry
        /\ \A j, k \in 1..Len(lockOrder) : j # k => lockOrder[j] # lockOrder[k]
        /\ VerifyChain(Entries).ok

C9_Witness ==
    /\ Finished = Procs
    /\ saveErrors = 0
    /\ Len(Entries) = NumProcs
    /\ verdict.valid /\ verdict.ok

\* C10: a chain opened on the same path after the last successful Save holds
\* an entry sequence identical to the original and verifies ok.
C10_RoundTrip ==
    (chain2.opened /\ ~unsaved /\ Quiescent) =>
        /\ ~chain2.err
        /\ chain2.Entries = Entries
        /\ VerifyChain(chain2.Entries).ok

\* ------------------------------------------------ claims about tampering
\* One external mutation of one field of a chain built by AddLog, then
\* VerifyChain.
OneTamper(f) == verdict.valid /\ tampers.count = 1 /\ tampers.field = f
ReportsMismatch == HashMismatch(tampers.index) \in Range(verdict.errors)

\* C4 as stated: changing any single field of entry i, metadata included,
\* makes VerifyChain return ok=false with a hash mismatch at i.
C4_AnyFieldDetected ==
    (verdict.valid /\ tampers.count = 1) => ~verdict.ok /\ ReportsMismatch

\* C4 amended: changing any single field of entry i other than metadata
\* (timestamp, message, signature, pubkey, prev_hash or current_hash) makes
\* VerifyChain return ok=false with a hash mismatch at i.
C4_HashedFieldDetected ==
    (verdict.valid /\ tampers.count = 1 /\ tampers.field # "Metadata") =>
        ~verdict.ok /\ ReportsMismatch

C4_Witness == OneTamper("PubKey") /\ ~verdict.ok /\ ReportsMismatch

\* C5 as stated: corrupting only current_hash of entry i makes VerifyChain
\* report only the hash mismatch at i and no broken link at any index.
C5_OnlyMismatch ==
    OneTamper("CurrentHash") =>
        verdict.errors = <<HashMismatch(tampers.index)>>

\* C5 amended: corrupting only current_hash of entry i makes VerifyChain
\* report the hash mismatch at i and, when i is not the last entry, the broken
\* link at i+1, and no other problem.
C5_MismatchAndNextLink ==
    OneTamper("CurrentHash") =>
        verdict.errors =
            IF tampers.index + 1 < Len(Entries)
            THEN <<HashMismatch(tampers.index), BrokenLink(tampers.index + 1)>>
            ELSE <<HashMismatch(tampers.index)>>

C5_Witness ==
    /\ OneTamper("CurrentHash")
    /\ tampers.index + 1 < Len(Entries)
    /\ BrokenLink(tampers.index + 1) \in Range(verdict.errors)

\* C6 as stated: corrupting only prev_hash of entry i > 0 makes VerifyChain
\* report only the broken link at i and no hash mismatch.
C6_OnlyBrokenLink ==
    (OneTamper("PrevHash") /\ tampers.index > 0) =>
        verdict.errors = <<BrokenLink(tampers.index)>>

\* C6 amended: corrupting only prev_hash of entry i > 0 makes VerifyChain
\* report the hash mismatch at i and the broken link at i, and no other problem.
C6_MismatchAndBrokenLink ==
    (OneTamper("PrevHash") /\ tampers.index > 0) =>
        verdict.errors = <<HashMismatch(tampers.index), BrokenLink(tampers.index)>>

C6_Witness ==
    /\ OneTamper("PrevHash")
    /\ tampers.index > 0
    /\ Len(verdict.errors) = 2

\* C7: changing only the message of entry i makes VerifyChain return ok=false
\* with exactly one problem, the hash mismatch at i.
C7_MessageTamper ==
    OneTamper("Message") =>
        ~verdict.ok /\ verdict.errors = <<HashMismatch(tampers.index)>>

C7_Witness ==
    /\ OneTamper("Message")
    /\ tampers.index + 1 < Len(Entries)
    /\ verdict.errors = <<HashMismatch(tampers.index)>>

\* C8: VerifyChain examines every index: its list holds exactly one problem
\* per failed check (hash mismatch at i, broken link at i > 0, invalid genesis
\* at 0), in non-decreasing index order, and ok holds exactly when the list is
\* empty.
HashBad(k) == Entries[k].CurrentHash # calculateHash(Entries[k])
LinkBad(k) == k > 1 /\ Entries[k].PrevHash # Entries[k - 1].CurrentHash
GenesisBad == Len(Entries) >= 1 /\ Entries[1].PrevHash # GenesisHash
FailedChecks ==
    {HashMismatch(k - 1) : k \in {j \in 1..Len(Entries) : HashBad(j)}}
        \cup {BrokenLink(k - 1) : k \in {j \in 1..Len(Entries) : LinkBad(j)}}
        \cup (IF GenesisBad THEN {InvalidGenesis} ELSE {})

C8_AllProblemsInOrder ==
    verdict.valid =>
        /\ Range(verdict.errors) = FailedChecks
        /\ Len(verdict.errors) = Cardinality(FailedChecks)
        /\ \A j, k \in 1..Len(verdict.errors) :
              j < k => verdict.errors[j].index <= verdict.errors[k].index
        /\ verdict.ok <=> (verdict.errors = <<>>)

C8_Witness ==
    /\ verdict.valid
    /\ Len(verdict.errors) >= 3
    /\ \E j, k \in 1..Len(verdict.errors) :
          verdict.errors[j].index < verdict.errors[k].index

IsPrefix(s, t) == Len(s) <= Len(t) /\ SubSeq(t, 1, Len(s)) = s

\* C11: under the engine's API the entry sequence is append-only: the sequence
\* held before any step is a prefix of the sequence held after it, and a step
\* that changes it is an AddLog, which adds exactly one entry at the end; every
\* other operation leaves it unchanged.
C11_AppendOnly ==
    [][/\ IsPrefix(Entries, Entries')
       /\ Entries' # Entries =>
            /\ out'.op = "AddLog"
            /\ out'.before = Entries
            /\ Len(Entries') = Len(Entries) + 1
            /\ SubSeq(Entries', 1, Len(Entries)) = Entries]_vars

C11_Witness ==
    /\ Len(Entries) >= 2
    /\ out.op = "Stats"
    /\ verdict.valid

\* Memory and disk differ: opening the file does not give the entries held.
DiskDiffers == file.state # "doc" \/ file.doc # MarshalIndent(Entries)

\* C14: when Save fails inside AddLog, AddLog returns an error and no entry,
\* calls Save once only (no retry), and does not roll back: the sequence in
\* memory is the one before the call plus one entry, the file was not written
\* with it, and memory and disk differ.
C14_NoRollbackNoRetry ==
    [][(out'.op = "AddLog" /\ out'.err /\ out' # out) =>
         /\ out'.entry = ZeroEntry
         /\ saveErrors' = saveErrors + 1
         /\ Len(Entries') = Len(Entries) + 1
         /\ SubSeq(Entries', 1, Len(Entries)) = Entries
         /\ file' \in {file, TruncatedFile}
         /\ DiskDiffers']_vars

C14_Witness ==
    /\ out.op = "AddLog"
    /\ out.err
    /\ Len(out.before) >= 1
    /\ Len(Entries) = Len(out.before) + 1
    /\ file.state = "doc"

\* The positions of the entries of a chain stamped within [start, end].
InWindow(entries, start, end) ==
    {k \in 1..Len(entries) :
        start <= entries[k].Timestamp /\ entries[k].Timestamp <= end}

\* C16: for every chain and every pair of instants start, end (start > end,
\* no entry covered and every entry covered included), GetEntriesRange
\* returns exactly the entries e with start <= e.timestamp <= end, each once,
\* in their original order.
C16_RangeExact ==
    out.op = "GetEntriesRange" =>
        LET idx == InWindow(out.before, out.start, out.end)
            r == out.entries
        IN /\ Len(r) = Cardinality(idx)
           /\ \A j \in 1..Len(r) :
                \E k \in idx : /\ r[j] = out.before[k]
                               /\ Cardinality({i \in idx : i < k}) = j - 1

C16_Witness ==
    /\ out.op = "GetEntriesRange"
    /\ Len(out.entries) >= 1
    /\ Len(out.entries) < Len(out.before)
    /\ out.entries[1] = out.before[Len(out.before)]

\* C17: GetEntry(index) returns the entry stored at position index when
\* 0 <= index < length, and an error for every other index (negative, at or
\* beyond the length, any index on an empty chain), leaving the chain as it
\* was.
C17_GetEntry ==
    out.op = "GetEntry" =>
        /\ Entries = out.before
        /\ IF 0 <= out.index /\ out.index < Len(Entries)
           THEN ~out.err /\ out.entry = Entries[out.index + 1]
           ELSE out.err

C17_Witness ==
    /\ out.op = "GetEntry"
    /\ out.index < 0
    /\ out.err
    /\ Len(Entries) >= 1

\* C18: GetLastHash returns the genesis sentinel "0" for an empty chain and
\* otherwise the current_hash of the last entry, and the prev_hash AddLog
\* gave its entry is what GetLastHash returned on the chain before the call.
C18_LastHash ==
    /\ out.op = "GetLastHash" =>
         out.hash = IF Len(out.before) = 0
                    THEN <<"0">>
                    ELSE out.before[Len(out.before)].CurrentHash
    /\ out.op = "AddLog" =>
         Entries[Len(out.before) + 1].PrevHash = GetLastHash(out.before)

C18_Witness ==
    /\ out.op = "GetLastHash"
    /\ Len(out.before) >= 2
    /\ out.hash = Entries[Len(Entries)].CurrentHash
    /\ out.hash # Entries[1].CurrentHash

\* The entry is in the backing store.
InFile(e) == file.state = "doc" /\ MarshalEntry(e) \in Range(file.doc)

\* C13: Append has no partial success: an entry AddLog returned is in the
\* backing store (as long as no later write has failed), and the entry of an
\* AddLog that returned an error is not in the backing store, then or after
\* any later engine operation.
C13_NoPartialSuccess ==
    \A p \in Procs :
        ret[p].done =>
            IF ret[p].err
            THEN ~InFile(entry[p])
            ELSE saveErrors = 0 => InFile(ret[p].entry)

\* The file exists and cannot be read or parsed.
Unreadable(f, io) ==
    /\ f.state # "absent"
    /\ io \in {"stat fails", "read fails"} \/ f.state \in {"truncated", "malformed"}

\* C12: NewLogChain on a path whose file does not exist (its directory can be
\* created) returns an empty chain and no error; on a path whose file exists
\* but cannot be read or parsed it returns an error and no chain; the file is
\* not altered.
C12_OpenErrors ==
    [][(out'.op = "NewLogChain" /\ out' # out) =>
         /\ file' = file
         /\ (file.state = "absent" /\ out'.io # "mkdir fails") =>
                ~out'.err /\ out'.chain /\ out'.entries = <<>>
         /\ Unreadable(file, out'.io) => out'.err /\ ~out'.chain]_vars

\* C15: Load is all-or-nothing: after Load returns, the entries are the full
\* sequence stored in the document (no error) or what they were before the
\* call (error).
C15_LoadAllOrNothing ==
    out.op = "Load" =>
        IF out.err
        THEN out.after = out.before
        ELSE out.after = Unmarshal(out.file.doc)

\* The string is the hex encoding of some bytes.
IsHex(s) == Len(s) % 2 = 0 /\ \A i \in 1..Len(s) : s[i] \in HexDigits

\* C19: VerifySignature returns false, and does not raise, for every signature
\* string that fails hex decoding, whatever the public key and the message
\* are, a string that begins with the hex of a valid signature included.
C19_BadHexIsFalse ==
    (out.op = "VerifySignature" /\ ~IsHex(out.sigHex)) =>
        ~out.panic /\ ~out.result

\* The entry's signature verifies against its pubkey and message (both stored
\* as hex strings).
EntrySignatureValid(e) ==
    LET pk == DecodeString(e.PubKey)
        sg == DecodeString(e.Signature)
    IN /\ ~pk.err
       /\ ~sg.err
       /\ Len(pk.bytes) = PublicKeySize
       /\ Ed25519Verify(pk.bytes, e.Message, sg.bytes).ok

\* C20: chain verification verifies each entry's Ed25519 signature: a chain
\* holding an entry whose signature does not verify against its pubkey and
\* message is reported as invalid.
C20_SignaturesChecked ==
    (verdict.valid /\ \E k \in 1..Len(Entries) : ~EntrySignatureValid(Entries[k]))
        => ~verdict.ok

\* C25: timestamps are assigned inside the write-locked section, so with a
\* clock that never goes backwards the timestamps along the sequence are
\* non-decreasing in every reachable state, under every interleaving of
\* concurrent AddLog calls.
C25_TimestampsNonDecreasing ==
    \A i \in 1..Len(Entries), j \in 1..Len(Entries) :
        i < j => Entries[i].Timestamp <= Entries[j].Timestamp

C25_Witness ==
    /\ Len(Entries) >= 2
    /\ Entries[1].Timestamp < Entries[2].Timestamp
    /\ lockOrder = <<2, 1>>

\* C27: persistence is whole-chain: when an AddLog returns successfully and no
\* other AddLog is under way, the backing document holds the complete
\* sequence held in memory, every entry in order, not only the new entry.
C27_WholeChainSaved ==
    [][\A p \in Procs :
         (/\ pc[p] = "save"
          /\ pc'[p] = "done"
          /\ ~ret'[p].err
          /\ \A q \in Procs \ {p} : pc'[q] \in {"idle", "done"}) =>
            /\ file'.state = "doc"
            /\ Len(file'.doc) = Len(Entries')
            /\ \A k \in 1..Len(Entries') :
                  file'.doc[k] = MarshalEntry(Entries'[k])]_vars

C27_Witness ==
    /\ Quiescent
    /\ Len(Entries) >= 2
    /\ ~unsaved
    /\ saveErrors = 1
    /\ file.state = "doc"
    /\ Len(file.doc) = Len(Entries)

\* C28: the link hash depends on timestamp, message, signature, pubkey and
\* prev_hash only: giving a stored entry any other metadata changes neither
\* its hash nor the result of VerifyChain.
C28_MetadataNotHashed ==
    \A k \in 1..Len(Entries), m \in {NilMap, EmptyMap, TestMap} :
        /\ calculateHash([Entries[k] EXCEPT !.Metadata = m])
              = calculateHash(Entries[k])
        /\ VerifyChain([Entries EXCEPT ![k].Metadata = m])
              = VerifyChain(Entries)

C28_Witness ==
    /\ tampers.field = "Metadata"
    /\ Entries[tampers.index + 1].Metadata = TestMap
    /\ verdict.valid
    /\ verdict.ok

\* C29: the hashed text does not escape the separator: a different split of
\* the same '|'-joined text into message and signature has the same
\* current_hash, so replacing a stored entry's fields by such a split leaves
\* VerifyChain returning ok.
C29_ResplitUndetected ==
    /\ \A k \in 1..Len(Entries) :
          \A r \in Resplits(Entries[k]) :
              calculateHash([Entries[k] EXCEPT !.Message = r.Message,
                                               !.Signature = r.Signature])
                  = calculateHash(Entries[k])
    /\ (tampers.count > 0 /\ verdict.valid) => verdict.ok

C29_Witness ==
    /\ tampers.count = 1
    /\ verdict.valid
    /\ verdict.ok
    /\ Entries[tampers.index + 1].Message = <<"a">>
    /\ Entries[tampers.index + 1].Signature = <<"b", "|", "c">>
    /\ file.doc[tampers.index + 1].message = <<"a", "|", "b">>

C22_MutualExclusion ==
    /\ Cardinality(Writing) <= 1
    /\ Writing # {} => Reading = {}
    /\ out.op \in ReaderOps \cup {"Stats"} => out.locked /\ out.writers = {}

C22_Witness ==
    \E p, q \in Procs :
        /\ pc[p] = "save"
        /\ pc[q] \in {"rlock", "srlock"}
        /\ mu.writer = p

\* C23: one reader/writer lock guards every access to the entry sequence:
\* every read of the entries, those of the HTTP handlers included, happens
\* with the lock held and overlaps no AddLog that is under way.
C23_EveryAccessLocked ==
    out.op # "none" => out.locked /\ out.writers = {}

\* C24: no deadlock: under fair scheduling every call that was started on the
\* chain returns, Stats included.
C24_EveryCallReturns ==
    \A p \in Procs : (pc[p] # "idle") ~> (pc[p] = "done")

\* C21: a GET of /api/v1/logs/range with valid RFC3339 start and end is
\* handled by getLogsByRange and answers with the entries whose timestamp
\* lies in the range, not by the handler of /api/v1/logs/:id.
C21_RangeRouted ==
    (/\ out.op = "GET"
     /\ out.path = RangePath
     /\ ~TimeParse(out.start).err
     /\ ~TimeParse(out.end).err)
    => /\ out.handler = "getLogsByRange"
       /\ out.status = 200
       /\ out.entries = GetEntriesRange(Entries, TimeParse(out.start).t,
                                        TimeParse(out.end).t)

\* The requests that the server has to reject: those that do not carry the
\* hex of a key of the right length and the hex of the signature of a
\* non-empty message under that key.
Signed(req) ==
    /\ req.parsed
    /\ req.message # <<>>
    /\ \E key \in {SignerKey, OtherKey} :
           /\ req.pubkey = EncodeToString(key)
           /\ req.signature = SignMessage(key, req.message)

\* C30: submitLog verifies before it appends: a request with an unparsable
\* body, an empty message, signature or pubkey, hex that does not decode, a
\* pubkey of the wrong length or a signature that does not verify is
\* rejected and leaves the entries and the file as they were; an answer of
\* 201 means that exactly one entry with the submitted message, signature
\* and pubkey was appended.
C30_VerifiedBeforeAppend ==
    out.op = "submitLog" =>
        /\ ~Signed(out.req) =>
               /\ out.status \in {400, 401, 500}
               /\ Entries = out.before
               /\ file = out.fileBefore
        /\ out.status \in {400, 401} =>
               Entries = out.before /\ file = out.fileBefore
        /\ out.status = 201 =>
               /\ Len(Entries) = Len(out.before) + 1
               /\ SubSeq(Entries, 1, Len(out.before)) = out.before
               /\ Entries[Len(Entries)].Message = out.req.message
               /\ Entries[Len(Entries)].Signature = out.req.signature
               /\ Entries[Len(Entries)].PubKey = out.req.pubkey
               /\ Signed(out.req)

C30_Witness ==
    /\ out.op = "submitLog"
    /\ out.status = 401
    /\ out.req.message = <<"b">>
    /\ out.req.signature = SignMessage(SignerKey, <<"a">>)
    /\ out.req.pubkey = EncodeToString(SignerKey)
    /\ Len(Entries) = 1
    /\ Entries[1].Signature = SignMessage(SignerKey, <<"a">>)

\* C31: a consistent rewrite is not detected: after a logged field of entry
\* i was changed and the current hash of entry i and the prev_hash and
\* current hash of every later entry were recomputed, VerifyChain returns
\* ok with no problems, for every chain and every i.
C31_RewriteUndetected ==
    (tampers.count > 0 /\ verdict.valid) =>
        /\ verdict.ok
        /\ verdict.errors = <<>>

C31_Witness ==
    /\ tampers.count > 0
    /\ tampers.index = 0
    /\ tampers.field = "Message"
    /\ Len(Entries) = 2
    /\ Entries[1].Message = <<"t">>
    /\ verdict.valid
    /\ verdict.ok

\* C32: tail truncation is not detected: every prefix, the empty one
\* included, of a chain for which VerifyChain returns ok makes VerifyChain
\* return ok as well, so removing the most recent entries from the store or
\* from the backing file yields no integrity problem.
C32_TruncationUndetected ==
    /\ \A n \in 0..Len(Entries) :
           VerifyChain(Entries).ok => VerifyChain(Truncated(Entries, n)).ok
    /\ (/\ out.op = "Truncate"
        /\ out.okBefore
        /\ out.tampers = tampers.count
        /\ verdict.valid)
       => verdict.ok /\ verdict.errors = <<>>

C32_Witness ==
    /\ out.op = "Truncate"
    /\ out.where = "file"
    /\ out.okBefore
    /\ out.tampers = tampers.count
    /\ Len(out.before) = 2
    /\ Len(Entries) = 1
    /\ verdict.valid
    /\ verdict.ok

\* The fields that calculateHash reads.
HashedFields == {"Timestamp", "Message", "Signature", "PubKey", "PrevHash"}

\* C33: GetEntry hands out a reference to the stored element, not a copy:
\* with no AddLog in between, a caller's write to a hashed field of the
\* entry that GetEntry(i) returned changes the stored entry i, and a
\* following VerifyChain reports a hash mismatch at i; a write to a field of
\* the entry that AddLog returned leaves the stored chain unchanged.
C33_GetEntryAliasesStore ==
    out.op = "Write" =>
        /\ out.via = "GetEntry" =>
               /\ Entries[out.index + 1] = out.entry
               /\ Entries # out.before
               /\ (/\ tampers.count = 1
                   /\ out.field \in HashedFields
                   /\ verdict.valid)
                  => /\ ~verdict.ok
                     /\ HashMismatch(out.index) \in Range(verdict.errors)
        /\ out.via = "AddLog" =>
               /\ Entries = out.before
               /\ verdict.valid => verdict.ok

C33_Witness ==
    /\ out.op = "Write"
    /\ out.via = "GetEntry"
    /\ out.index = 0
    /\ out.field = "Message"
    /\ tampers.count = 1
    /\ Len(Entries) = 2
    /\ verdict.valid
    /\ HashMismatch(0) \in Range(verdict.errors)

====
